---- MODULE Spec2Model ----
(***************************************************************************)
(* Verification pipeline of src/verification: VerificationPipeline.verify, *)
(* generate_corrections and iterative_correction (orchestrator.py) with    *)
(* the checkers they call (static_analyzer.py, spec_matcher.py,            *)
(* runtime_validator.py, peer_review.py).                                  *)
(*                                                                         *)
(* Python dicts are records/functions with string domains; `"k" in d` is   *)
(* "k" \in DOMAIN d.  Floats in [0,1] are exact fixed-point integers in    *)
(* units of 1/Unit; stage weights are in hundredths, so an aggregate score *)
(* is an integer in units of 1/(100*Unit).                                 *)
(*                                                                         *)
(* The collaborators (completion model, security scanner, linter, parser,  *)
(* browser sandbox) are the environment: every call to one of them either  *)
(* returns a reply drawn from a small set or raises.  The checkers are     *)
(* attributes of the pipeline object; `wiring` says whether they are the   *)
(* classes of this repository ("real") or test doubles ("stub") that       *)
(* return a stage result directly.                                         *)
(*                                                                         *)
(* Neither VerificationPipeline.__init__ nor RuntimeValidator.__init__     *)
(* sets the attribute `c` that generate_corrections (line 114) and         *)
(* generate_test_cases (line 77) use, and SecurityAgent defines no         *)
(* scan_code_snippet: on objects left as constructed these calls raise     *)
(* AttributeError, which is the raising outcome of the call; the replying  *)
(* outcome is an object on which the collaborator has been set.            *)
(*                                                                         *)
(* Five specifications share the variables: Spec (one verify call),        *)
(* SpecLoop (one iterative_correction call), SpecCalls (several calls, one *)
(* after the other, on one pipeline, with the clock that the report id     *)
(* reads), SpecConc (several verify calls at once, as threads that share   *)
(* the working directory and the history) and SpecUnit (a checker function *)
(* applied on its own to arguments of every shape).                        *)
(***************************************************************************)
EXTENDS Integers, Sequences, FiniteSets, TLC

VARIABLES
    wiring,                \* "real" | "stub": what self.static/.spec/.runtime/.peer are
    env,                   \* "full" | "compact" | "tiny": how many replies the environment offers
    op,                    \* entry point: "verify" | "iterative_correction" | "generate_corrections"
    pc,                    \* position inside the call
    generated_code,        \* the candidate (parameter / loop variable)
    requirements,          \* the requirements dict
    max_attempts,          \* parameter of iterative_correction
    attempt,               \* loop variable of iterative_correction
    report,                \* local `report` (of verify, then of the loop)
    verification_history,  \* self.verification_history
    calls,                 \* checker invocations of the current verify, in order
    answers,               \* raw evaluator answers of the current consensus stage
    verifyCalls,           \* number of verify calls started
    corrections,           \* number of generate_corrections calls started
    result,                \* value returned to the caller
    error,                 \* exception that left the call, "none" if none
    now,                   \* int(time.time()), the clock in whole seconds
    completions,           \* self.c.complete calls made by generate_corrections
    historyBefore,         \* len(verification_history) when the call was made
    callsMade,             \* calls made on this pipeline so far
    threads,               \* the concurrent verify calls: position and locals of each
    files,                 \* the files of the working directory that verify writes
    fn,                    \* checker function applied on its own, "none" before
    args,                  \* the arguments it was applied to
    out                    \* what it returned

vars == <<wiring, env, op, pc, generated_code, requirements, max_attempts,
          attempt, report, verification_history, calls, answers,
          verifyCalls, corrections, result, error, now, completions,
          historyBefore, callsMade, threads, files, fn, args, out>>

\* a checker function applied on its own
unit == <<fn, args, out>>

\* the state of the concurrent callers and of the working directory, and of
\* the checker functions applied on their own
conc == <<threads, files, unit>>

----------------------------------------------------------------------------
(* Bounds *)

MaxAttempts == 3
MaxCases == 2
MaxCalls == 2
MaxClock == 1
MaxThreads == 2
MaxLen == 3
MaxPatterns == 2

----------------------------------------------------------------------------
(* Numbers *)

Unit == 3 * 1000
Frac(n, d) == (n * Unit) \div d

None == "None"
EmptyDict == [k \in {} |-> 0]
Put(d, k, v) == [x \in DOMAIN d \cup {k} |-> IF x = k THEN v ELSE d[x]]
Get(d, k, default) == IF k \in DOMAIN d THEN d[k] ELSE default

\* sum(...) over a list of booleans
RECURSIVE CountTrue(_)
CountTrue(s) == IF s = <<>> THEN 0
                ELSE (IF Head(s) THEN 1 ELSE 0) + CountTrue(Tail(s))

----------------------------------------------------------------------------
(* static_analyzer.py *)

\* variant: the pattern is looked for at the start of the code only
Contains_prefix(code, pattern) ==
    /\ Len(pattern) <= Len(code)
    /\ \A j \in 1..Len(pattern) : code[j] = pattern[j]

\* `pattern in code` on strings: pattern occurs as a contiguous run of code
Contains(code, pattern) ==
    \E i \in 0..(Len(code) - Len(pattern)) :
        \A j \in 1..Len(pattern) : code[i + j] = pattern[j]

\* verify_syntax: True, or the error dict when the parser raised SyntaxError
verify_syntax(parses) ==
    IF parses THEN [ok |-> TRUE]
    ELSE [ok |-> FALSE, valid |-> FALSE, error |-> "Syntax error", line |-> 1]

RECURSIVE verify_patterns(_, _)
verify_patterns(code, patterns) ==
    IF patterns = <<>> THEN <<>>
    ELSE (IF Contains(code, Head(patterns)) THEN <<>> ELSE <<Head(patterns)>>)
         \o verify_patterns(code, Tail(patterns))

\* lint_code: result.stdout if result.returncode != 0 else None
lint_code(returncode, stdout) == IF returncode # 0 THEN stdout ELSE None

full_static_check(code, reqs, parses, issues, returncode, stdout) ==
    LET r == [syntax   |-> verify_syntax(parses),
              patterns |-> verify_patterns(code, Get(reqs, "patterns", <<>>)),
              security |-> [issues |-> issues],
              linting  |-> lint_code(returncode, stdout)]
    IN  [syntax |-> r.syntax, patterns |-> r.patterns,
         security |-> r.security, linting |-> r.linting,
         valid |-> /\ r.syntax.ok
                   /\ r.patterns = <<>>
                   /\ r.security.issues = 0
                   /\ r.linting = None]

----------------------------------------------------------------------------
(* spec_matcher.py *)

\* full_spec_check; coverage and design are the collaborator's JSON replies
full_spec_check(coverage, design, design_url) ==
    LET hasDesign == design_url # None
        req_score == coverage.score
        design_score == IF hasDesign THEN design.similarity_score ELSE Unit
        overall == (req_score + design_score) \div (IF hasDesign THEN 2 ELSE 1)
    IN  [requirement_coverage |-> coverage,
         design_match |-> IF hasDesign THEN design ELSE [none |-> TRUE],
         overall_score |-> overall,
         passed |-> overall * 100 >= 85 * Unit]

----------------------------------------------------------------------------
(* runtime_validator.py *)

\* variant: the first probe that raises ends the run
execute_in_sandbox_abort(test_cases, evals) ==
    LET raising == {i \in 1..Len(test_cases) : evals[i] = "Raise"}
        last == IF raising = {} THEN Len(test_cases)
                ELSE (CHOOSE i \in raising : \A j \in raising : i <= j) - 1
    IN  [i \in 1..last |->
            [test |-> test_cases[i].name,
             passed |-> (evals[i] = test_cases[i].expected),
             result |-> evals[i]]]

\* execute_in_sandbox: one outcome per case; evals[i] is what page.evaluate
\* gave for case i, or "Raise" when it raised
execute_in_sandbox(test_cases, evals) ==
    [i \in 1..Len(test_cases) |->
        IF evals[i] = "Raise"
        THEN [test |-> test_cases[i].name, passed |-> FALSE, error |-> "Exception"]
        ELSE [test |-> test_cases[i].name,
              passed |-> (evals[i] = test_cases[i].expected),
              result |-> evals[i]]]

\* sum(1 for t in results if t["passed"])
PassedCount(results) == CountTrue([i \in 1..Len(results) |-> results[i].passed])

\* validate_component, for a non-empty outcome list (an empty one divides by 0)
validate_component(results) ==
    [passed |-> \A i \in 1..Len(results) : results[i].passed,
     test_cases |-> results,
     success_rate |-> (PassedCount(results) * 100 * Unit) \div Len(results)]

----------------------------------------------------------------------------
(* peer_review.py *)

models == <<"deepseek-coder:6.7b", "llama3.1:8b", "phind-coder:34b">>

\* str.lower() on the characters the answers are made of
LowerChar(c) == CASE c = "Y" -> "y" [] c = "E" -> "e" [] c = "S" -> "s"
                  [] c = "N" -> "n" [] c = "O" -> "o" [] OTHER -> c
Lower(s) == [i \in 1..Len(s) |-> LowerChar(s[i])]

\* "yes" in result.lower()
Vote(answer) == Contains(Lower(answer), <<"y", "e", "s">>)

\* variant: a simple majority instead of the 0.7 threshold
cross_model_verification_majority(ans) ==
    LET results == [i \in 1..Len(ans) |-> Vote(ans[i])]
        confidence == (CountTrue(results) * Unit) \div Len(results)
    IN  [verified |-> confidence * 10 > 5 * Unit,
         confidence |-> confidence,
         votes |-> results]

\* cross_model_verification; ans[i] is the completion of models[i]
cross_model_verification(ans) ==
    LET results == [i \in 1..Len(ans) |-> Vote(ans[i])]
        confidence == (CountTrue(results) * Unit) \div Len(results)
    IN  [verified |-> confidence * 10 >= 7 * Unit,
         confidence |-> confidence,
         votes |-> results]

----------------------------------------------------------------------------
(* orchestrator.py: the score of verify *)

\* variant: a weight table that does not sum to 1
weights_heavy_static ==
    <<[key |-> "static",    weight |-> 25],
      [key |-> "spec",      weight |-> 30],
      [key |-> "runtime",   weight |-> 30],
      [key |-> "peer",      weight |-> 15],
      [key |-> "consensus", weight |-> 5]>>

\* the `weights` dict, in its iteration order, in hundredths
weights == <<[key |-> "static",    weight |-> 20],
             [key |-> "spec",      weight |-> 30],
             [key |-> "runtime",   weight |-> 30],
             [key |-> "peer",      weight |-> 15],
             [key |-> "consensus", weight |-> 5]>>

\* variant: a skipped stage counts as a passed one
Contribution_skipped_full(r, weight) ==
    IF "skipped" \in DOMAIN r THEN Unit * weight
    ELSE IF "score" \in DOMAIN r THEN r.score * weight
    ELSE IF "confidence" \in DOMAIN r THEN r.confidence * weight
    ELSE IF Get(r, "passed", FALSE) THEN Unit * weight
    ELSE 0

\* one pass of the loop body `for key, weight in weights.items()`
Contribution(r, weight) ==
    IF "score" \in DOMAIN r THEN r.score * weight
    ELSE IF "confidence" \in DOMAIN r THEN r.confidence * weight
    ELSE IF Get(r, "passed", FALSE) THEN Unit * weight
    ELSE 0

RECURSIVE ScoreFrom(_, _)
ScoreFrom(results, i) ==
    IF i > Len(weights) THEN 0
    ELSE Contribution(results[weights[i].key], weights[i].weight)
         + ScoreFrom(results, i + 1)

\* variant: the sum is not started afresh, it grows with the history
verification_score_carried(results) ==
    ScoreFrom(results, 1) + Len(verification_history)

verification_score(results) == ScoreFrom(results, 1)

\* variant: strict comparison with the threshold
Verified_strict(score) == score > 85 * Unit

\* report["verified"] = score >= 0.85
Verified(score) == score >= 85 * Unit

\* variant: the runtime phase moved ahead of the specification phase
StageOrder_runtime_early == <<"static", "runtime", "spec", "peer", "consensus">>

\* the order of the five phases in the body of verify
StageOrder == <<"static", "spec", "runtime", "peer", "consensus">>

\* variant: the peer review is left out once the runtime phase is over
StageAfter_skip_peer(stage) ==
    LET i == CHOOSE k \in 1..Len(StageOrder) : StageOrder[k] = stage
    IN  IF stage = "runtime" THEN "consensus"
        ELSE IF i < Len(StageOrder) THEN StageOrder[i + 1] ELSE "aggregate"

\* the phase that follows in the straight-line body of verify
StageAfter(stage) ==
    LET i == CHOOSE k \in 1..Len(StageOrder) : StageOrder[k] = stage
    IN  IF i < Len(StageOrder) THEN StageOrder[i + 1] ELSE "aggregate"

\* variant: the runtime checker is run whatever the static result
RuntimeGate_always(static) == TRUE

\* the condition of `if report["results"]["static"]["valid"]`
RuntimeGate(static) == static.valid

Skipped == [skipped |-> "Static validation failed"]

----------------------------------------------------------------------------
(* The environment: inputs of the calls and replies of the collaborators *)

Foo == <<"foo">>
Bar == <<"bar">>

\* candidate codes, as token sequences
Codes == {Foo, Foo \o Bar}

\* values of max_attempts that callers pass
AttemptChoices == IF env = "tiny" THEN {0, 2} ELSE 0..MaxAttempts

RequirementsSet ==
    IF env = "full"
    THEN {[patterns |-> <<Foo>>],
          [patterns |-> <<Foo, Bar>>, design_url |-> "design"],
          [design_url |-> "design"]}
    ELSE {[patterns |-> <<Foo>>]}

Scores == {0, Frac(1, 2), Frac(9, 10), Unit}

\* ast.parse succeeded?  security issue count; (returncode, stdout) of the linter
ParseReplies == BOOLEAN
SecurityReplies == IF env = "full" THEN {0, 1} ELSE {0}
LintReplies ==
    IF env = "full"
    THEN {<<0, "">>, <<0, "warning">>, <<1, "warning">>, <<1, "">>}
    ELSE {<<0, "">>}

CoverageReplies ==
    {[covered |-> <<>>, missing |-> <<>>, score |-> x] :
        x \in IF env = "full" THEN Scores ELSE {Frac(9, 10)}}
DesignReplies ==
    {[matches |-> TRUE, discrepancies |-> <<>>, similarity_score |-> x] :
        x \in IF env = "full" THEN {Frac(1, 2), Frac(9, 10), Unit} ELSE {Frac(9, 10)}}

\* generate_test_cases: n cases, each expecting "ok"
TestCases(n) == [i \in 1..n |-> [name |-> i, test |-> "probe", expected |-> "ok"]]
SuiteSizes == IF env = "full" THEN (0..MaxCases) \cup {5} ELSE {1}
\* page.evaluate per case
EvalReplies(n) ==
    IF env = "full"
    THEN IF n <= MaxCases THEN [1..n -> {"ok", "bad", "Raise"}]
                          ELSE {[i \in 1..n |-> "ok"]}
    ELSE [1..n -> {"ok", "bad"}]

\* the JSON the review model returns; it is not validated by the code
PeerReplies ==
    IF env = "full"
    THEN {[verified |-> b, issues |-> <<>>, corrections |-> "", confidence |-> x] :
              b \in BOOLEAN, x \in {0, Frac(9, 10), Unit}}
         \cup {[verified |-> TRUE, issues |-> <<>>],
               [verified |-> FALSE, issues |-> <<"issue">>],
               [score |-> Unit, confidence |-> 0, issues |-> <<>>],
               [passed |-> TRUE, issues |-> <<>>],
               [verified |-> TRUE, issues |-> <<>>, confidence |-> 2 * Unit]}
    ELSE {[verified |-> TRUE, issues |-> <<>>, corrections |-> "",
           confidence |-> Frac(9, 10)]}

\* the one-token completions of the evaluators
Answers == IF env = "full" THEN {<<"Y", "e", "s">>, <<"n", "o">>}
                           ELSE {<<"y", "e", "s">>}
AnswerReplies == IF env = "full" THEN [1..Len(models) -> Answers]
                 ELSE {[i \in 1..Len(models) |-> a] : a \in Answers}

\* what a test double standing in for a checker returns
StubResults(stage) ==
    CASE stage = "static" ->
            IF env = "full"
            THEN {[valid |-> TRUE, passed |-> TRUE], [valid |-> TRUE, score |-> Unit],
                  [valid |-> TRUE], [valid |-> FALSE],
                  [valid |-> FALSE, score |-> Unit]}
            ELSE {[valid |-> TRUE, passed |-> TRUE], [valid |-> FALSE]}
      [] stage = "spec" ->
            IF env = "full"
            THEN {[score |-> Frac(9, 10)], [score |-> Unit],
                  [passed |-> TRUE], [passed |-> FALSE]}
            ELSE {[score |-> Frac(9, 10)]}
      [] stage = "runtime" ->
            IF env = "full"
            THEN {[passed |-> TRUE, test_cases |-> <<[passed |-> TRUE]>>],
                  [passed |-> FALSE, test_cases |-> <<[passed |-> FALSE]>>],
                  [score |-> Unit], [passed |-> FALSE]}
            ELSE IF env = "compact"
            THEN {[passed |-> TRUE, test_cases |-> <<[passed |-> TRUE]>>],
                  [passed |-> FALSE, test_cases |-> <<[passed |-> FALSE]>>],
                  [passed |-> FALSE]}
            ELSE {[passed |-> TRUE, test_cases |-> <<[passed |-> TRUE]>>],
                  [passed |-> FALSE, test_cases |-> <<[passed |-> FALSE]>>]}
      [] stage = "peer" ->
            IF env = "full"
            THEN {[confidence |-> Frac(9, 10)], [confidence |-> Unit],
                  [verified |-> TRUE], [passed |-> TRUE]}
            ELSE {[confidence |-> Frac(9, 10)]}
      [] stage = "consensus" ->
            IF env = "full"
            THEN {[confidence |-> Unit], [confidence |-> Frac(2, 3)],
                  [verified |-> TRUE], [passed |-> TRUE]}
            ELSE IF env = "compact"
            THEN {[confidence |-> Unit], [confidence |-> 0]}
            ELSE {[confidence |-> Unit]}

Unbound == [unbound |-> TRUE]

\* callers that may be inside verify at the same time
Threads == 1..MaxThreads

\* how many calls one pipeline object receives
CallLimit == IF env = "tiny" THEN MaxCalls ELSE 1

\* a caller may call when no call is in progress
CanCall == pc \in {"idle", "returned", "raised"} /\ callsMade < CallLimit

----------------------------------------------------------------------------
(* State after construction of the pipeline *)

InitWith(e) ==
    /\ wiring \in {"real", "stub"}
    /\ env = e
    /\ op = "none"
    /\ pc = "idle"
    /\ generated_code = <<>>
    /\ requirements = EmptyDict
    /\ max_attempts = 0
    /\ attempt = 0
    /\ report = Unbound
    /\ verification_history = <<>>
    /\ calls = <<>>
    /\ answers = <<>>
    /\ verifyCalls = 0
    /\ corrections = 0
    /\ result = Unbound
    /\ error = "none"
    /\ now = 0
    /\ completions = 0
    /\ historyBefore = 0
    /\ callsMade = 0
    /\ threads = [t \in Threads |-> [pc |-> "idle", code |-> <<>>,
                                     linted |-> <<>>, mounted |-> <<>>]]
    /\ files = [temp_verify |-> <<>>, test_harness |-> <<>>]
    /\ fn = "none"
    /\ args = Unbound
    /\ out = Unbound

Init == InitWith("full")
InitLoop == InitWith("compact")

----------------------------------------------------------------------------
(* verify *)

\* lines 17-24: the fresh report
BeginVerify ==
    /\ report' = [id |-> now, requirements |-> requirements,
                  code |-> generated_code, results |-> EmptyDict]
    /\ calls' = <<>>
    /\ answers' = <<>>
    /\ verifyCalls' = verifyCalls + 1
    /\ pc' = StageOrder[1]

\* an exception leaves verify and, there being no handler, the caller's call
Raise(kind) ==
    /\ pc' = "raised"
    /\ error' = kind

\* report["results"][stage] = r, then on to the next phase
Record(stage, r) ==
    /\ report' = [report EXCEPT !.results = Put(report.results, stage, r)]
    /\ pc' = StageAfter(stage)
    /\ UNCHANGED error

CallVerify ==
    /\ CanCall
    /\ op' = "verify"
    /\ generated_code' \in Codes
    /\ requirements' \in RequirementsSet
    /\ report' = [id |-> now, requirements |-> requirements',
                  code |-> generated_code', results |-> EmptyDict]
    /\ calls' = <<>>
    /\ answers' = <<>>
    /\ verifyCalls' = 1
    /\ corrections' = 0
    /\ completions' = 0
    /\ result' = Unbound
    /\ error' = "none"
    /\ historyBefore' = Len(verification_history)
    /\ callsMade' = callsMade + 1
    /\ pc' = StageOrder[1]
    /\ UNCHANGED <<wiring, env, max_attempts, attempt, verification_history, now>>
    /\ UNCHANGED conc

StaticStage ==
    /\ pc = "static"
    /\ calls' = Append(calls, "static")
    /\ \/ Raise("collaborator") /\ UNCHANGED report
       \/ /\ wiring = "real"
          /\ \E parses \in ParseReplies, issues \in SecurityReplies, lint \in LintReplies :
                Record("static", full_static_check(generated_code, requirements,
                                                   parses, issues, lint[1], lint[2]))
       \/ /\ wiring = "stub"
          /\ \E r \in StubResults("static") : Record("static", r)
    /\ UNCHANGED <<wiring, env, op, generated_code, requirements, max_attempts,
                   attempt, verification_history, answers, verifyCalls,
                   corrections, result>>
    /\ UNCHANGED <<now, completions, historyBefore, callsMade>>
    /\ UNCHANGED conc

SpecStage ==
    /\ pc = "spec"
    /\ calls' = Append(calls, "spec")
    /\ \/ Raise("collaborator") /\ UNCHANGED report
       \/ /\ wiring = "real"
          /\ LET design_url == Get(requirements, "design_url", None)
             IN  \E coverage \in CoverageReplies :
                 \E design \in IF design_url # None THEN DesignReplies
                                                    ELSE {[none |-> TRUE]} :
                    Record("spec", full_spec_check(coverage, design, design_url))
       \/ /\ wiring = "stub"
          /\ \E r \in StubResults("spec") : Record("spec", r)
    /\ UNCHANGED <<wiring, env, op, generated_code, requirements, max_attempts,
                   attempt, verification_history, answers, verifyCalls,
                   corrections, result>>
    /\ UNCHANGED <<now, completions, historyBefore, callsMade>>
    /\ UNCHANGED conc

RuntimeStage ==
    /\ pc = "runtime"
    /\ IF RuntimeGate(report.results["static"])
       THEN /\ calls' = Append(calls, "runtime")
            /\ \/ Raise("collaborator") /\ UNCHANGED report
               \/ /\ wiring = "real"
                  /\ \E n \in SuiteSizes : \E evals \in EvalReplies(n) :
                        LET results == execute_in_sandbox(TestCases(n), evals)
                        IN  IF Len(results) = 0
                            THEN Raise("ZeroDivisionError") /\ UNCHANGED report
                            ELSE Record("runtime", validate_component(results))
               \/ /\ wiring = "stub"
                  /\ \E r \in StubResults("runtime") : Record("runtime", r)
       ELSE /\ calls' = Append(calls, "skipped")
            /\ Record("runtime", Skipped)
    /\ UNCHANGED <<wiring, env, op, generated_code, requirements, max_attempts,
                   attempt, verification_history, answers, verifyCalls,
                   corrections, result>>
    /\ UNCHANGED <<now, completions, historyBefore, callsMade>>
    /\ UNCHANGED conc

PeerStage ==
    /\ pc = "peer"
    /\ calls' = Append(calls, "peer")
    /\ \/ Raise("collaborator") /\ UNCHANGED report
       \/ /\ wiring = "real"
          /\ \E r \in PeerReplies : Record("peer", r)
       \/ /\ wiring = "stub"
          /\ \E r \in StubResults("peer") : Record("peer", r)
    /\ UNCHANGED <<wiring, env, op, generated_code, requirements, max_attempts,
                   attempt, verification_history, answers, verifyCalls,
                   corrections, result>>
    /\ UNCHANGED <<now, completions, historyBefore, callsMade>>
    /\ UNCHANGED conc

ConsensusStage ==
    /\ pc = "consensus"
    /\ calls' = Append(calls, "consensus")
    /\ \/ Raise("collaborator") /\ UNCHANGED <<report, answers>>
       \/ /\ wiring = "real"
          /\ \E ans \in AnswerReplies :
                /\ answers' = ans
                /\ Record("consensus", cross_model_verification(ans))
       \/ /\ wiring = "stub"
          /\ UNCHANGED answers
          /\ \E r \in StubResults("consensus") : Record("consensus", r)
    /\ UNCHANGED <<wiring, env, op, generated_code, requirements, max_attempts,
                   attempt, verification_history, verifyCalls, corrections, result>>
    /\ UNCHANGED <<now, completions, historyBefore, callsMade>>
    /\ UNCHANGED conc

\* lines 61-85: score, verdict, history, return
\* variant: the history keeps the latest report only
history_append_latest(h, r) == <<r>>

\* self.verification_history.append(report), line 83
history_append(h, r) == Append(h, r)

Aggregate ==
    /\ pc = "aggregate"
    /\ LET score == verification_score(report.results)
           final == [id |-> report.id,
                     requirements |-> report.requirements, code |-> report.code,
                     results |-> report.results,
                     verification_score |-> score, verified |-> Verified(score)]
       IN  /\ report' = final
           /\ verification_history' = history_append(verification_history, final)
           /\ IF op = "verify"
              THEN pc' = "returned" /\ result' = final
              ELSE pc' = "check" /\ UNCHANGED result
    /\ UNCHANGED <<wiring, env, op, generated_code, requirements, max_attempts,
                   attempt, calls, answers, verifyCalls, corrections, error>>
    /\ UNCHANGED <<now, completions, historyBefore, callsMade>>
    /\ UNCHANGED conc

VerifySteps ==
    \/ StaticStage
    \/ SpecStage
    \/ RuntimeStage
    \/ PeerStage
    \/ ConsensusStage
    \/ Aggregate

Next ==
    \/ CallVerify
    \/ VerifySteps

Spec == Init /\ [][Next]_vars

----------------------------------------------------------------------------
(* generate_corrections and iterative_correction *)

\* the return statement of line 121 (early) and of line 131 (exhausted)
LoopResult(code, verified, attempts, rep) ==
    [code |-> code, verified |-> verified, attempts |-> attempts, report |-> rep]

\* variant: the zero-based loop index is returned
AttemptsDone_index(a) == a

\* the value of `attempt + 1` returned on line 124
AttemptsDone(a) == a + 1

\* line 96 subscripts the runtime result with 'test_cases'
HasTestCases(rep) == "test_cases" \in DOMAIN rep.results["runtime"]

CallIterativeCorrection ==
    /\ CanCall
    /\ op' = "iterative_correction"
    /\ generated_code' \in Codes
    /\ requirements' \in RequirementsSet
    /\ max_attempts' \in AttemptChoices
    /\ attempt' = 0
    /\ report' = Unbound
    /\ calls' = <<>>
    /\ answers' = <<>>
    /\ verifyCalls' = 0
    /\ corrections' = 0
    /\ completions' = 0
    /\ result' = Unbound
    /\ error' = "none"
    /\ historyBefore' = Len(verification_history)
    /\ callsMade' = callsMade + 1
    /\ pc' = "loop"
    /\ UNCHANGED <<wiring, env, verification_history, now>>
    /\ UNCHANGED conc

\* `for attempt in range(max_attempts)`: another round, which calls verify
LoopIterate ==
    /\ pc = "loop"
    /\ attempt < max_attempts
    /\ BeginVerify
    /\ UNCHANGED <<wiring, env, op, generated_code, requirements, max_attempts,
                   attempt, verification_history, corrections, result, error>>
    /\ UNCHANGED <<now, completions, historyBefore, callsMade>>
    /\ UNCHANGED conc

\* the range is used up: lines 131-136, which read the local `report`
LoopExhausted ==
    /\ pc = "loop"
    /\ attempt >= max_attempts
    /\ IF report = Unbound
       THEN Raise("UnboundLocalError") /\ UNCHANGED result
       ELSE /\ result' = LoopResult(generated_code, FALSE, max_attempts, report)
            /\ pc' = "returned"
            /\ UNCHANGED error
    /\ UNCHANGED <<wiring, env, op, generated_code, requirements, max_attempts,
                   attempt, report, verification_history, calls, answers,
                   verifyCalls, corrections>>
    /\ UNCHANGED <<now, completions, historyBefore, callsMade>>
    /\ UNCHANGED conc

\* lines 120-126
LoopCheck ==
    /\ pc = "check"
    /\ IF report.verified
       THEN /\ result' = LoopResult(generated_code, TRUE, AttemptsDone(attempt), report)
            /\ pc' = "returned"
       ELSE /\ pc' = "correct"
            /\ UNCHANGED result
    /\ UNCHANGED <<wiring, env, op, generated_code, requirements, max_attempts,
                   attempt, report, verification_history, calls, answers,
                   verifyCalls, corrections, error>>
    /\ UNCHANGED <<now, completions, historyBefore, callsMade>>
    /\ UNCHANGED conc

\* the value generate_corrections returns goes to the loop variable (line
\* 129) or, when the method was called directly, to its caller
ReturnCorrection(c) ==
    IF op = "iterative_correction"
    THEN /\ generated_code' = c
         /\ attempt' = attempt + 1
         /\ pc' = "loop"
         /\ UNCHANGED <<result, error>>
    ELSE /\ result' = c
         /\ pc' = "returned"
         /\ UNCHANGED <<generated_code, attempt, error>>

\* variant: a correction is asked for whatever the report says
NeedsCorrection_always(rep) == TRUE

\* the test of line 89 fails: the report is not verified
NeedsCorrection(rep) == ~rep.verified

\* generate_corrections(report), lines 87-114
GenerateCorrections ==
    /\ pc = "correct"
    /\ corrections' = corrections + 1
    /\ IF ~NeedsCorrection(report)
       THEN /\ ReturnCorrection(report.code)
            /\ UNCHANGED completions
       ELSE IF ~HasTestCases(report)
       THEN /\ Raise("KeyError")
            /\ UNCHANGED <<generated_code, attempt, result, completions>>
       ELSE /\ completions' = completions + 1
            /\ \/ Raise("collaborator") /\ UNCHANGED <<generated_code, attempt, result>>
               \/ \E c \in Codes : ReturnCorrection(c)
    /\ UNCHANGED <<wiring, env, op, requirements, max_attempts, report,
                   verification_history, calls, answers, verifyCalls>>
    /\ UNCHANGED <<now, historyBefore, callsMade>>
    /\ UNCHANGED conc

NextLoop ==
    \/ CallIterativeCorrection
    \/ LoopIterate
    \/ VerifySteps
    \/ LoopCheck
    \/ GenerateCorrections
    \/ LoopExhausted

SpecLoop == InitLoop /\ [][NextLoop]_vars

----------------------------------------------------------------------------
(* Several calls, one after the other, on one pipeline object *)

InitCalls == InitWith("tiny") /\ wiring = "stub"

\* the clock moves on; only the reads of line 17 observe it, so it is let
\* move where a verify call may begin next
Tick ==
    /\ pc \in {"idle", "returned", "raised", "loop"}
    /\ now < MaxClock
    /\ now' = now + 1
    /\ UNCHANGED <<wiring, env, op, pc, generated_code, requirements,
                   max_attempts, attempt, report, verification_history, calls,
                   answers, verifyCalls, corrections, result, error,
                   completions, historyBefore, callsMade>>
    /\ UNCHANGED conc

\* a caller hands generate_corrections a report that verify gave out earlier
CallGenerateCorrections ==
    /\ CanCall
    /\ op' = "generate_corrections"
    /\ \E i \in 1..Len(verification_history) : report' = verification_history[i]
    /\ calls' = <<>>
    /\ answers' = <<>>
    /\ verifyCalls' = 0
    /\ corrections' = 0
    /\ completions' = 0
    /\ result' = Unbound
    /\ error' = "none"
    /\ historyBefore' = Len(verification_history)
    /\ callsMade' = callsMade + 1
    /\ pc' = "correct"
    /\ UNCHANGED <<wiring, env, generated_code, requirements, max_attempts,
                   attempt, verification_history, now>>
    /\ UNCHANGED conc

NextCalls ==
    \/ CallVerify
    \/ CallIterativeCorrection
    \/ CallGenerateCorrections
    \/ Tick
    \/ VerifySteps
    \/ LoopIterate
    \/ LoopCheck
    \/ GenerateCorrections
    \/ LoopExhausted

SpecCalls == InitCalls /\ [][NextCalls]_vars

----------------------------------------------------------------------------
(* Several verify calls at the same time on one pipeline object; the checkers *)
(* are the repository's, and each call is one caller thread                  *)

InitConc == InitWith("tiny") /\ wiring = "real"

\* the variables of the one-caller-at-a-time specifications, history apart
solo == <<wiring, env, op, pc, generated_code, requirements, max_attempts,
          attempt, report, calls, answers, verifyCalls, corrections, result,
          error, now, completions, historyBefore, callsMade>>

At(t, where) == threads[t].pc = where

\* caller t enters verify with its own code (orchestrator.py:15-24)
ThreadVerify(t) ==
    /\ At(t, "idle")
    /\ \E c \in Codes :
          threads' = [threads EXCEPT ![t].pc = "lint_write", ![t].code = c]
    /\ UNCHANGED <<files, verification_history>>
    /\ UNCHANGED solo
    /\ UNCHANGED unit

\* lint_code writes the code to the fixed path temp_verify.<language>
LintWrite(t) ==
    /\ At(t, "lint_write")
    /\ files' = [files EXCEPT !.temp_verify = threads[t].code]
    /\ threads' = [threads EXCEPT ![t].pc = "lint_run"]
    /\ UNCHANGED verification_history
    /\ UNCHANGED solo
    /\ UNCHANGED unit

\* the linter subprocess reads what the path holds by then
LintRun(t) ==
    /\ At(t, "lint_run")
    /\ threads' = [threads EXCEPT ![t].pc = "harness_write",
                                  ![t].linted = files.temp_verify]
    /\ UNCHANGED <<files, verification_history>>
    /\ UNCHANGED solo
    /\ UNCHANGED unit

\* execute_in_sandbox writes the harness around the code to the fixed path
\* <work_dir>/test_harness.html
HarnessWrite(t) ==
    /\ At(t, "harness_write")
    /\ files' = [files EXCEPT !.test_harness = threads[t].code]
    /\ threads' = [threads EXCEPT ![t].pc = "goto"]
    /\ UNCHANGED verification_history
    /\ UNCHANGED solo
    /\ UNCHANGED unit

\* page.goto loads what the path holds by then; the test cases run on it
SandboxLoad(t) ==
    /\ At(t, "goto")
    /\ threads' = [threads EXCEPT ![t].pc = "append",
                                  ![t].mounted = files.test_harness]
    /\ UNCHANGED <<files, verification_history>>
    /\ UNCHANGED solo
    /\ UNCHANGED unit

\* the report of caller t: what was asked, and what its stages examined
ThreadReport(t) ==
    [id |-> now, thread |-> t, code |-> threads[t].code,
     results |-> [static |-> [linted |-> threads[t].linted],
                  runtime |-> [mounted |-> threads[t].mounted]]]

\* list.append is a single step of the interpreter
ThreadAppend(t) ==
    /\ At(t, "append")
    /\ verification_history' = history_append(verification_history, ThreadReport(t))
    /\ threads' = [threads EXCEPT ![t].pc = "done"]
    /\ UNCHANGED files
    /\ UNCHANGED solo
    /\ UNCHANGED unit

NextConc ==
    \/ \E t \in Threads : ThreadVerify(t)
    \/ \E t \in Threads : LintWrite(t)
    \/ \E t \in Threads : LintRun(t)
    \/ \E t \in Threads : HarnessWrite(t)
    \/ \E t \in Threads : SandboxLoad(t)
    \/ \E t \in Threads : ThreadAppend(t)

SpecConc == InitConc /\ [][NextConc]_vars

----------------------------------------------------------------------------
(* The checker functions applied on their own, to arguments of every shape *)

InitUnit == InitWith("full") /\ wiring = "real"

\* the strings of at most n characters over a two-letter alphabet
Strings(n) == UNION {[1..k -> {"a", "b"}] : k \in 0..n}

\* the lists of at most n strings
PatternLists(n) == UNION {[1..k -> Strings(MaxLen)] : k \in 0..n}

\* the function returns to its caller
Returns(f, a, r) ==
    /\ fn' = f
    /\ args' = a
    /\ out' = r
    /\ UNCHANGED <<threads, files, verification_history>>
    /\ UNCHANGED solo

Apply_verify_patterns ==
    /\ fn = "none"
    /\ \E code \in Strings(MaxLen), patterns \in PatternLists(MaxPatterns) :
        Returns("verify_patterns", [code |-> code, patterns |-> patterns],
                verify_patterns(code, patterns))

Apply_full_static_check ==
    /\ fn = "none"
    /\ \E code \in Codes, reqs \in RequirementsSet, parses \in ParseReplies,
       issues \in SecurityReplies, lint \in LintReplies :
        Returns("full_static_check",
                [code |-> code, requirements |-> reqs, parses |-> parses,
                 issues |-> issues, returncode |-> lint[1], stdout |-> lint[2]],
                full_static_check(code, reqs, parses, issues, lint[1], lint[2]))

Apply_execute_in_sandbox ==
    /\ fn = "none"
    /\ \E n \in 0..MaxCases : \E evals \in EvalReplies(n) :
        Returns("execute_in_sandbox",
                [test_cases |-> TestCases(n), evals |-> evals],
                execute_in_sandbox(TestCases(n), evals))

NextUnit ==
    \/ Apply_verify_patterns
    \/ Apply_full_static_check
    \/ Apply_execute_in_sandbox

SpecUnit == InitUnit /\ [][NextUnit]_vars

----------------------------------------------------------------------------
(* Properties *)

Terminal == pc \in {"returned", "raised"}
Recorded(stage) == report # Unbound /\ stage \in DOMAIN report.results
Invoked(stage) == \E i \in 1..Len(calls) : calls[i] = stage
ScoreUnit == 100 * Unit

\* C1: the stage invocations of a verify call occur in the order static,
\* specification, runtime (or its Skipped record), peer review, consensus,
\* results are recorded in that order, and the runtime checker is started
\* only after the static result with its valid flag has been recorded.
C1_StageOrder ==
    /\ Len(calls) <= 5
    /\ \A i \in 1..Len(calls) :
          \/ calls[i] = <<"static", "spec", "runtime", "peer", "consensus">>[i]
          \/ i = 3 /\ calls[i] = "skipped"
    /\ \A i \in 2..5 :
          Recorded(<<"static", "spec", "runtime", "peer", "consensus">>[i])
             => Recorded(<<"static", "spec", "runtime", "peer", "consensus">>[i - 1])
    /\ Invoked("runtime") =>
          Recorded("static") /\ "valid" \in DOMAIN report.results["static"]

C1_Witness ==
    /\ pc = "returned"
    /\ op = "verify"
    /\ calls = <<"static", "spec", "runtime", "peer", "consensus">>

\* C2: when the static result has valid = false the runtime checker is not
\* invoked, the runtime stage is the Skipped record and the score is the sum
\* of the other four stages' contributions; the runtime checker is invoked
\* only when valid is true.
C2_SkipRule ==
    /\ Invoked("runtime") => report.results["static"].valid
    /\ (Recorded("runtime") /\ ~report.results["static"].valid) =>
          /\ ~Invoked("runtime")
          /\ report.results["runtime"] = [skipped |-> "Static validation failed"]
          /\ pc = "returned" =>
                report.verification_score =
                    Contribution(report.results["static"], 20)
                    + Contribution(report.results["spec"], 30)
                    + Contribution(report.results["peer"], 15)
                    + Contribution(report.results["consensus"], 5)

C2_Witness ==
    /\ pc = "returned"
    /\ ~report.results["static"].valid
    /\ report.results["runtime"] = [skipped |-> "Static validation failed"]
    /\ report.verification_score > 0

\* C3: the report returned by verify, and stored in the history, has
\* verified = true exactly when its score is at least 0.85.
C3_VerifiedIffThreshold ==
    /\ pc = "returned" =>
          (result.verified <=> result.verification_score * 100 >= 85 * ScoreUnit)
    /\ \A i \in 1..Len(verification_history) :
          verification_history[i].verified
             <=> verification_history[i].verification_score * 100 >= 85 * ScoreUnit

\* a report whose score is exactly the threshold
C3_Witness ==
    /\ pc = "returned"
    /\ result.verification_score * 100 = 85 * ScoreUnit
    /\ result.verified

InUnitInterval(r) ==
    /\ "score" \in DOMAIN r => (0 <= r.score /\ r.score <= Unit)
    /\ "confidence" \in DOMAIN r => (0 <= r.confidence /\ r.confidence <= Unit)

\* C4: the five stage weights 0.20, 0.30, 0.30, 0.15, 0.05 sum to 1, and when
\* every score and confidence field of the stage results lies in [0,1] the
\* aggregate score lies in [0,1].
C4_ScoreInUnitInterval ==
    /\ [i \in 1..Len(weights) |-> weights[i].weight] = <<20, 30, 30, 15, 5>>
    /\ weights[1].weight + weights[2].weight + weights[3].weight
          + weights[4].weight + weights[5].weight = 100
    /\ (pc = "returned" /\ \A k \in DOMAIN result.results : InUnitInterval(result.results[k]))
          => (0 <= result.verification_score /\ result.verification_score <= ScoreUnit)

\* the score 1.0 is attained
C4_Witness ==
    /\ pc = "returned"
    /\ \A k \in DOMAIN result.results : InUnitInterval(result.results[k])
    /\ result.verification_score = ScoreUnit

\* the rule of the claim: score, else confidence, else the full weight when
\* the passed or the verified flag is true, else 0
C5_Rule(r, w) ==
    IF "score" \in DOMAIN r THEN r.score * w
    ELSE IF "confidence" \in DOMAIN r THEN r.confidence * w
    ELSE IF Get(r, "passed", FALSE) \/ Get(r, "verified", FALSE) THEN Unit * w
    ELSE 0

\* C5: each stage contributes score*weight, else confidence*weight, else the
\* full weight when its passed or verified flag is true, else 0.
C5_ContributionRule ==
    pc = "returned" =>
        result.verification_score =
            C5_Rule(result.results["static"], 20)
            + C5_Rule(result.results["spec"], 30)
            + C5_Rule(result.results["runtime"], 30)
            + C5_Rule(result.results["peer"], 15)
            + C5_Rule(result.results["consensus"], 5)

\* the end-to-end case of the claim, on the results of the real checkers
C6_Case ==
    /\ pc = "returned"
    /\ wiring = "real"
    /\ result.results["static"].valid
    /\ result.results["spec"].overall_score = Frac(9, 10)
    /\ result.results["runtime"].passed
    /\ Len(result.results["runtime"].test_cases) = 5
    /\ "score" \notin DOMAIN result.results["peer"]
    /\ "confidence" \in DOMAIN result.results["peer"]
    /\ result.results["peer"].confidence = Frac(9, 10)
    /\ result.results["consensus"].votes = <<TRUE, TRUE, TRUE>>

\* C6: static valid, specification score 0.9, runtime 5 of 5, peer confidence
\* 0.9 and consensus 3 of 3 give score 0.955 and verified = true.
C6_EndToEnd ==
    C6_Case => /\ result.verification_score * 1000 = 955 * ScoreUnit
               /\ result.verified

YesVotes(votes) == Cardinality({i \in 1..Len(votes) : votes[i]})

\* C7: the consensus result holds one vote per evaluator, in evaluator order,
\* vote i being whether answer i says yes; confidence is the fraction of yes
\* votes; verified holds exactly when at least ceil(0.7 * votes) are yes, so
\* with three evaluators two yes votes do not verify and three do.
C7_Consensus ==
    (wiring = "real" /\ Recorded("consensus")) =>
        LET r == report.results["consensus"]
            n == Len(r.votes)
            yes == YesVotes(r.votes)
        IN  /\ n = Len(answers)
            /\ n = 3
            /\ \A i \in 1..n :
                  r.votes[i] <=> answers[i] \in {<<"Y", "e", "s">>, <<"y", "e", "s">>}
            /\ r.confidence * n = yes * Unit
            /\ r.verified <=> (yes >= (7 * n + 9) \div 10)
            /\ yes = 2 => ~r.verified
            /\ yes = 3 => r.verified

\* two of three evaluators said yes
C7_Witness ==
    /\ wiring = "real"
    /\ Recorded("consensus")
    /\ YesVotes(report.results["consensus"].votes) = 2
    /\ ~report.results["consensus"].verified
    /\ answers[1] = <<"n", "o">>

AnyVerified == \E i \in 1..Len(verification_history) : verification_history[i].verified

\* C8: for max_attempts >= 1, whatever the stage outcomes and candidates,
\* iterative_correction ends after at most max_attempts verify calls by
\* returning a record {code, verified, attempts, report}.
C8_ReturnsRecord ==
    (op = "iterative_correction" /\ max_attempts >= 1) =>
        /\ verifyCalls <= max_attempts
        /\ (Terminal /\ error # "collaborator") =>
              /\ pc = "returned"
              /\ DOMAIN result = {"code", "verified", "attempts", "report"}

\* C9: when no verify call yields verified = true, iterative_correction with
\* max_attempts = N makes exactly N verify calls and returns attempts = N,
\* verified = false and the report of the last verify call.
C9_Exhaustion ==
    (op = "iterative_correction" /\ max_attempts >= 1 /\ Terminal
        /\ error # "collaborator" /\ ~AnyVerified) =>
        /\ pc = "returned"
        /\ verifyCalls = max_attempts
        /\ result.attempts = max_attempts
        /\ ~result.verified
        /\ result.report = verification_history[Len(verification_history)]

\* C10: when the first verified report occurs on attempt k, the loop stops
\* there: k verify calls, k - 1 corrections, no exception, and the result is
\* attempts = k, verified = true, the k-th report and the code it evaluated.
C10_EarlyStop ==
    (op = "iterative_correction" /\ AnyVerified) =>
        LET k == Len(verification_history)
        IN  /\ \A i \in 1..(k - 1) : ~verification_history[i].verified
            /\ k <= max_attempts
            /\ verifyCalls = k
            /\ corrections = k - 1
            /\ pc \in {"check", "returned"}
            /\ pc = "returned" =>
                  /\ result.verified
                  /\ result.attempts = k
                  /\ result.report = verification_history[k]
                  /\ result.code = verification_history[k].code

\* verified on the second attempt
C10_Witness ==
    /\ op = "iterative_correction"
    /\ pc = "returned"
    /\ result.verified
    /\ result.attempts = 2
    /\ Len(verification_history) = 2
    /\ ~verification_history[1].verified

----------------------------------------------------------------------------
(* The result and the failures of iterative_correction and verify *)

\* C11: in every result iterative_correction returns, on early success and on
\* exhaustion alike, the returned report is the report of the returned code:
\* result.report.code equals result.code.
C11_ReportOfCode ==
    (op = "iterative_correction" /\ pc = "returned") =>
        result.report.code = result.code

\* C12: when iterative_correction (max_attempts >= 1) meets no verified
\* report, whatever the stage outcomes of the failing reports were, a Skipped
\* runtime included, the call does not end in an error raised by the loop's
\* own code: it returns a result with verified = false.
C12_ExhaustionIsReturned ==
    (op = "iterative_correction" /\ max_attempts >= 1 /\ ~AnyVerified) =>
        /\ pc = "raised" => error = "collaborator"
        /\ pc = "returned" => ~result.verified

\* C13: a checker that fails with a collaborator error during verify does
\* not abort it: verify still ends by returning a report that holds a result
\* for each of the five stages, a score and verified, and that report is
\* appended to the history.
C13_FailureCaptured ==
    (op = "verify" /\ Terminal) =>
        /\ pc = "returned"
        /\ DOMAIN result.results = {StageOrder[i] : i \in 1..Len(StageOrder)}
        /\ DOMAIN result = {"id", "requirements", "code", "results",
                            "verification_score", "verified"}
        /\ Len(verification_history) = historyBefore + 1
        /\ verification_history[Len(verification_history)] = result

----------------------------------------------------------------------------
(* The history *)

\* what one step may do to the history
C14_Step ==
    /\ IF pc = "aggregate"
       THEN /\ verification_history' = Append(verification_history, report')
            /\ op = "verify" => result' = report'
            /\ "verified" \in DOMAIN report'
       ELSE verification_history' = verification_history
    /\ (op' = "iterative_correction" /\ pc' = "returned") =>
          /\ result'.attempts = Len(verification_history') - historyBefore'
          /\ result'.report = verification_history'[Len(verification_history')]
    /\ (op' = "verify" /\ pc' = "returned") =>
          /\ Len(verification_history') = historyBefore' + 1
          /\ result' = verification_history'[Len(verification_history')]

\* C14: verification_history is append-only. It changes only at the step
\* that completes a verify execution, and then by gaining, at its end, the
\* report that execution returns; every earlier entry stays where it was. A
\* returning iterative_correction has added exactly `attempts` entries, the
\* last being the report it returns, and a returning verify exactly one.
C14_AppendOnly == [][C14_Step]_vars

C14_Witness ==
    /\ op = "iterative_correction"
    /\ pc = "returned"
    /\ historyBefore = 1
    /\ result.attempts = 2
    /\ Len(verification_history) = 3
    /\ callsMade = 2

\* a report of caller t is in the history
Reported(t) ==
    \E i \in 1..Len(verification_history) : verification_history[i].thread = t

\* the half of C15 that the code keeps: no report is lost
NoReportLost ==
    /\ \A t \in Threads : At(t, "done") => Reported(t)
    /\ Len(verification_history) = Cardinality({t \in Threads : At(t, "done")})

\* C15: with several verify calls running at once on one pipeline, no report
\* is lost from the history (a caller that is done has its report in it, and
\* the history holds one report per finished caller), and every report's
\* stage results come from that call's own code: the linter and the sandbox
\* examined the code of the call they ran for.
C15_Isolation ==
    /\ NoReportLost
    /\ \A i \in 1..Len(verification_history) :
          LET r == verification_history[i]
          IN  /\ r.results["static"].linted = r.code
              /\ r.results["runtime"].mounted = r.code

----------------------------------------------------------------------------
(* Report identity and repeatability *)

\* C16: any two distinct reports in the history have different ids, the
\* successive reports of one correction loop and reports made within one
\* clock second included.
C16_UniqueIds ==
    \A i, j \in 1..Len(verification_history) :
        i # j => verification_history[i].id # verification_history[j].id

SameInputsAndOutputs(r1, r2) ==
    /\ r1.code = r2.code
    /\ r1.requirements = r2.requirements
    /\ r1.results = r2.results

\* C17: two verify executions with the same code and requirements, whose
\* stages gave the same outputs, yield the same score and the same verified,
\* whatever the history held when each ran and whichever calls ran between.
C17_Idempotent ==
    \A i, j \in 1..Len(verification_history) :
        SameInputsAndOutputs(verification_history[i], verification_history[j]) =>
            /\ verification_history[i].verification_score
                  = verification_history[j].verification_score
            /\ verification_history[i].verified = verification_history[j].verified

C17_Witness ==
    /\ Len(verification_history) = 3
    /\ SameInputsAndOutputs(verification_history[1], verification_history[3])
    /\ verification_history[2].results # verification_history[1].results
    /\ verification_history[1].id # verification_history[3].id
    /\ pc = "returned"

----------------------------------------------------------------------------
(* generate_corrections *)

\* what a step of generate_corrections on a verified report does
C18_Step ==
    (pc = "correct" /\ report.verified) =>
        /\ pc' = "returned"
        /\ result' = report.code
        /\ completions' = completions
        /\ report' = report
        /\ verification_history' = verification_history
        /\ error' = error

\* C18: generate_corrections applied to a verified report returns that
\* report's code, makes no call to the code-generation collaborator and
\* changes neither the report nor the history.
C18_VerifiedUnchanged == [][C18_Step]_vars

C18_Witness ==
    /\ op = "generate_corrections"
    /\ pc = "returned"
    /\ report.verified
    /\ result = report.code
    /\ completions = 0

\* C19: a verify call whose requirements lack a required field (here
\* `patterns`) raises at once: no checker is invoked, no stage result is
\* recorded and nothing is appended to the history.
C19_ContractViolationRaises ==
    (op = "verify" /\ "patterns" \notin DOMAIN requirements) =>
        /\ calls = <<>>
        /\ report.results = EmptyDict
        /\ Len(verification_history) = historyBefore
        /\ pc # "returned"

\* C20: every call of generate_corrections on an unverified report, one with
\* a Skipped runtime stage included, delegates exactly once to the
\* code-generation collaborator: once the correction step of a loop round is
\* over, as many completions were asked for as corrections were called for.
C20_DelegatesOnce ==
    (op = "iterative_correction" /\ pc # "correct") => completions = corrections

----------------------------------------------------------------------------
(* The stages of verify and the checkers' own rules *)

TimesInvoked(stage) == Cardinality({i \in 1..Len(calls) : calls[i] = stage})
AllStages == {StageOrder[i] : i \in 1..Len(StageOrder)}

\* C21: whether the static result is valid or not, and whether the runtime
\* checker ran or was skipped, a verify call invokes the specification,
\* peer-review and consensus checkers once each, and when the score is
\* computed the results mapping holds an entry for each of the five stages;
\* so does every report of the history.
C21_AllStagesRun ==
    /\ \A stage \in {"spec", "peer", "consensus"} : TimesInvoked(stage) <= 1
    /\ (pc = "aggregate" \/ (op = "verify" /\ pc = "returned")) =>
          /\ \A stage \in {"spec", "peer", "consensus"} : TimesInvoked(stage) = 1
          /\ DOMAIN report.results = AllStages
    /\ \A i \in 1..Len(verification_history) :
          DOMAIN verification_history[i].results = AllStages

C21_Witness ==
    /\ op = "verify"
    /\ pc = "returned"
    /\ ~result.results["static"].valid
    /\ result.results["runtime"] = Skipped
    /\ DOMAIN result.results = AllStages
    /\ calls = <<"static", "spec", "skipped", "peer", "consensus">>

\* C22: full_static_check sets valid exactly when the syntax check
\* succeeded, no required pattern is missing, the security scan reports zero
\* issues and the linter produced no output.
C22_ValidIff ==
    fn = "full_static_check" =>
        (out.valid <=> /\ args.parses
                       /\ out.patterns = <<>>
                       /\ args.issues = 0
                       /\ args.stdout = "")

\* the pattern occurs verbatim in the code, at some position
C23_Occurs(code, pattern) ==
    \E i \in 1..(Len(code) - Len(pattern) + 1) :
        SubSeq(code, i, i + Len(pattern) - 1) = pattern

C23_Absent(pattern) == ~C23_Occurs(args.code, pattern)

\* C23: verify_patterns returns exactly the required patterns that do not
\* occur verbatim in the code, in their original relative order; the result
\* is empty exactly when every pattern occurs, and no patterns give none.
C23_MissingPatterns ==
    fn = "verify_patterns" =>
        /\ out = SelectSeq(args.patterns, C23_Absent)
        /\ out = <<>> <=> \A i \in 1..Len(args.patterns) :
                              C23_Occurs(args.code, args.patterns[i])
        /\ args.patterns = <<>> => out = <<>>

C23_Witness ==
    /\ fn = "verify_patterns"
    /\ args.code = <<"a", "b">>
    /\ args.patterns = <<<<"b", "a">>, <<"a", "a">>>>
    /\ out = <<<<"b", "a">>, <<"a", "a">>>>

\* C24: with a design reference the overall score is the average of the
\* requirement score and the design similarity, without one the design is
\* not compared and the overall score is the requirement score alone; passed
\* holds exactly when the overall score is at least 0.85.
C24_OverallScore ==
    (wiring = "real" /\ Recorded("spec")) =>
        LET r == report.results["spec"]
            req_score == r.requirement_coverage.score
        IN  /\ IF "design_url" \in DOMAIN requirements
               THEN 2 * r.overall_score = req_score + r.design_match.similarity_score
               ELSE /\ r.design_match = [none |-> TRUE]
                    /\ r.overall_score = req_score
            /\ r.passed <=> r.overall_score * 100 >= 85 * Unit

\* C25: for every sequence of case outcomes the sandbox returns, the empty
\* one included, validate_component returns success_rate = passed / total *
\* 100 and passed exactly when success_rate is 100; it does not raise.
C25_SuccessRate ==
    wiring = "real" =>
        /\ error # "ZeroDivisionError"
        /\ (Recorded("runtime") /\ report.results["runtime"] # Skipped) =>
              LET r == report.results["runtime"]
              IN  /\ r.success_rate * Len(r.test_cases)
                        = PassedCount(r.test_cases) * 100 * Unit
                  /\ r.passed <=> r.success_rate = 100 * Unit

\* C26: execute_in_sandbox returns one outcome per test case, in the order of
\* the cases; a case whose probe raises is recorded with passed = false and
\* its error, and the cases after it are executed all the same.
C26_EveryCaseRuns ==
    fn = "execute_in_sandbox" =>
        /\ Len(out) = Len(args.test_cases)
        /\ \A i \in 1..Len(args.test_cases) :
              /\ out[i].test = args.test_cases[i].name
              /\ IF args.evals[i] = "Raise"
                 THEN ~out[i].passed /\ "error" \in DOMAIN out[i]
                 ELSE /\ out[i].passed <=> args.evals[i] = args.test_cases[i].expected
                      /\ out[i].result = args.evals[i]

C26_Witness ==
    /\ fn = "execute_in_sandbox"
    /\ args.evals = <<"Raise", "ok">>
    /\ Len(out) = 2
    /\ ~out[1].passed
    /\ out[2].passed

\* C27: when the static result is valid and the runtime checker cannot do
\* its work (the sandbox cannot be started or reached, or the test cases
\* cannot be generated), verify records a runtime result all the same and
\* goes on.
C27_SandboxUnavailable ==
    (op = "verify" /\ Invoked("runtime") /\ error # "ZeroDivisionError") =>
        Recorded("runtime")

\* C28: a report whose static result is not valid has a Skipped runtime
\* stage, and every report with a Skipped runtime stage is unverified,
\* whatever the other stages gave.
C28_SkippedUnverified ==
    /\ (pc = "aggregate" /\ ~report.results["static"].valid) =>
          report.results["runtime"] = Skipped
    /\ \A i \in 1..Len(verification_history) :
          LET r == verification_history[i]
          IN  (~r.results["static"].valid \/ r.results["runtime"] = Skipped) =>
                  ~r.verified

C28_Witness ==
    /\ pc = "returned"
    /\ result.results["static"] = [valid |-> FALSE, score |-> Unit]
    /\ result.results["runtime"] = Skipped
    /\ result.verification_score = 70 * Unit
    /\ ~result.verified

\* the best results of the shapes the repository's checkers return
C29_BestCase ==
    /\ pc = "returned"
    /\ wiring = "real"
    /\ result.results["static"].valid
    /\ result.results["spec"].overall_score >= Unit
    /\ result.results["spec"].passed
    /\ result.results["runtime"].passed
    /\ DOMAIN result.results["peer"]
          = {"verified", "issues", "corrections", "confidence"}
    /\ result.results["peer"].confidence = Unit
    /\ result.results["consensus"].confidence = Unit

\* C29: verified = true is reachable with stage results of the shapes the
\* checkers return; the score grows with each stage's result, so if any such
\* combination verifies, the best one does.
C29_VerifiedReachable == C29_BestCase => result.verified

\* what holds instead: no report made of such results is verified
RealShapesNeverVerify ==
    (wiring = "real" /\ pc = "returned"
        /\ Get(result.results["peer"], "confidence", 0) <= Unit) =>
        ~result.verified

\* C30: iterative_correction with max_attempts = 0 makes no verify call and
\* no correction, leaves the history as it was and returns a record with
\* verified = false and attempts = 0; it does not raise.
C30_ZeroAttempts ==
    (op = "iterative_correction" /\ max_attempts = 0) =>
        /\ verifyCalls = 0
        /\ corrections = 0
        /\ Len(verification_history) = historyBefore
        /\ pc # "raised"
        /\ pc = "returned" => (~result.verified /\ result.attempts = 0)

====
